---- MODULE Spec2Model ----
(***************************************************************************)
(* BaseUrl (src/src/lib.rs): a wrapper around rust-url's Url that is meant *)
(* to hold only URLs that can serve as a base.                             *)
(*                                                                         *)
(* Strings are modelled as sequences of tokens: a URL text is the sequence *)
(* of its scheme, delimiters and components, e.g. "http://a@h:42/p?k=v#f"  *)
(* is <<"http", ":", "//", "a", "@", "h", ":", "42", "/", "p", "?", "k",   *)
(* "=", "v", "#", "f">>.  The wrapped Url is a record of its components;   *)
(* Serialize builds its text and Parse reads a text back.  The Url methods *)
(* that BaseUrl forwards to follow rust-url 1.7.2, the release the crate's *)
(* `url` dependency resolves to (the doc comments of lib.rs name gopher as *)
(* a known default port and give set_scheme a single refusal condition).   *)
(***************************************************************************)
EXTENDS Naturals, Sequences, FiniteSets, TLC

VARIABLES
    phase,  \* "init" | "base" | "rejected" | "panicked"
    url,    \* the Url owned by the BaseUrl (BaseUrl.url)
    last    \* the last call: [op, status, info, val]

vars == <<phase, url, last>>

(***************************************************************************)
(* Bounds of the model.                                                    *)
(***************************************************************************)
MaxSegments == 2    \* most path segments a push may build
MaxPairs == 1       \* most query pairs an append_pair may build

(***************************************************************************)
(* Option values: None is the empty sequence, Some(v) a one-element one.   *)
(***************************************************************************)
None == <<>>
Some(v) == <<v>>
IsSome(o) == Len(o) = 1
Unwrap(o) == o[1]

(***************************************************************************)
(* rust-url: schemes, their kind and their default ports.                  *)
(***************************************************************************)
SpecialNotFile == {"http", "https", "ws", "wss", "ftp", "gopher"}
IsSpecial(scheme) == scheme \in SpecialNotFile \/ scheme = "file"

default_port(scheme) ==
    CASE scheme \in {"http", "ws"} -> Some(80)
      [] scheme \in {"https", "wss"} -> Some(443)
      [] scheme = "ftp" -> Some(21)
      [] scheme = "gopher" -> Some(70)
      [] OTHER -> None

\* Parser::parse_scheme on a whole word: the lower-cased scheme, or None when
\* the word is not [a-zA-Z][a-zA-Z0-9+.-]*.
parse_scheme(word) ==
    CASE word \in {"http", "https", "ws", "ftp", "file", "ssh", "foo", "data", "unix"} -> Some(word)
      [] word = "HTTPS" -> Some("https")
      [] OTHER -> None

\* Decimal text of a port and back.
PortStr(p) ==
    CASE p = 21 -> "21" [] p = 42 -> "42" [] p = 80 -> "80"
      [] p = 443 -> "443"

parse_port(word) ==
    CASE word = "21" -> Some(21) [] word = "42" -> Some(42) [] word = "80" -> Some(80)
      [] word = "443" -> Some(443)
      [] OTHER -> None

(***************************************************************************)
(* rust-url: host parsing.  A host is [kind, str].                         *)
(***************************************************************************)
Ok(v) == [ok |-> TRUE, val |-> v, err |-> ""]
Err(e) == [ok |-> FALSE, val |-> None, err |-> e]

\* Host::parse, the host parser of special schemes.
Host_parse(word) ==
    CASE word = "" -> Err("EmptyHost")
      [] word = "[::1]" -> Ok([kind |-> "Ipv6", str |-> "[::1]"])
      [] word = "[:::1]" -> Err("InvalidIpv6Address")
      [] word = "127.0.0.1" -> Ok([kind |-> "Ipv4", str |-> "127.0.0.1"])
      [] word = "Example.ORG" -> Ok([kind |-> "Domain", str |-> "example.org"])
      [] word = "exa mple.org" -> Err("InvalidDomainCharacter")
      [] OTHER -> Ok([kind |-> "Domain", str |-> word])

\* Host::parse_opaque, the host parser of the other schemes: no IPv4, no
\* case folding, the empty host is a domain.
Host_parse_opaque(word) ==
    CASE word = "[::1]" -> Ok([kind |-> "Ipv6", str |-> "[::1]"])
      [] word = "[:::1]" -> Err("InvalidIpv6Address")
      [] word = "exa mple.org" -> Err("InvalidDomainCharacter")
      [] OTHER -> Ok([kind |-> "Domain", str |-> word])

(***************************************************************************)
(* The Url value and its serialization.                                    *)
(***************************************************************************)
MkUrl(scheme, slashes, username, password, host, port, path, query, fragment) ==
    [scheme |-> scheme, slashes |-> slashes, username |-> username,
     password |-> password, host |-> host, port |-> port, path |-> path,
     query |-> query, fragment |-> fragment]

NoUrl == MkUrl("", FALSE, "", None, None, None, <<>>, None, None)

Userinfo(u) ==
    IF u.username = "" /\ ~IsSome(u.password) THEN <<>>
    ELSE (IF u.username = "" THEN <<>> ELSE <<u.username>>)
         \o (IF IsSome(u.password) THEN <<":", Unwrap(u.password)>> ELSE <<>>)
         \o <<"@">>

HostPort(u) ==
    (IF IsSome(u.host) /\ Unwrap(u.host).str # "" THEN <<Unwrap(u.host).str>> ELSE <<>>)
    \o (IF IsSome(u.port) THEN <<":", PortStr(Unwrap(u.port))>> ELSE <<>>)

AfterPath(u) ==
    (IF IsSome(u.query) THEN <<"?">> \o Unwrap(u.query) ELSE <<>>)
    \o (IF IsSome(u.fragment) THEN <<"#">> \o Unwrap(u.fragment) ELSE <<>>)

\* Url::as_str: the stored serialization.
Serialize(u) ==
    <<u.scheme, ":">> \o (IF u.slashes THEN <<"//">> ELSE <<>>)
    \o Userinfo(u) \o HostPort(u) \o u.path \o AfterPath(u)

StartsWith(s, tok) == Len(s) >= 1 /\ s[1] = tok

\* Url::cannot_be_a_base: the path does not start with '/'.
cannot_be_a_base(u) == ~StartsWith(u.path, "/")

\* Url::has_authority: the serialization goes on with "://" after the scheme.
has_authority(u) ==
    LET s == Serialize(u) IN Len(s) >= 3 /\ s[2] = ":" /\ s[3] = "//"

\* Url::has_host
has_host(u) == IsSome(u.host)

(***************************************************************************)
(* rust-url: Url::parse, on the token form of a text.                      *)
(***************************************************************************)
IndexOf(s, tok) ==
    IF \E i \in 1..Len(s) : s[i] = tok
    THEN CHOOSE i \in 1..Len(s) : s[i] = tok /\ \A j \in 1..(i - 1) : s[j] # tok
    ELSE 0

Before(s, i) == IF i = 0 THEN s ELSE SubSeq(s, 1, i - 1)
After(s, i) == SubSeq(s, i + 1, Len(s))

RECURSIVE SkipSlashes(_)
SkipSlashes(s) ==
    IF StartsWith(s, "//") \/ StartsWith(s, "/") THEN SkipSlashes(Tail(s)) ELSE s

\* The userinfo before '@': [username, password].
parse_userinfo(toks) ==
    LET colon == IndexOf(toks, ":")
        name == Before(toks, colon)
    IN [username |-> IF name = <<>> THEN "" ELSE name[1],
        password |-> IF colon = 0 \/ colon = Len(toks) THEN None
                     ELSE Some(toks[colon + 1])]

\* A path start that leaves an empty path empty.
parse_path_start_keeps_empty(toks) ==
    IF toks = <<>> THEN <<>>
    ELSE <<"/">> \o (IF StartsWith(toks, "/") THEN Tail(toks) ELSE toks)

\* Parser::parse_path_start: the path of a URL that is not cannot-be-a-base
\* starts with one '/', whether the input has it or not.
parse_path_start(toks) ==
    <<"/">> \o (IF StartsWith(toks, "/") THEN Tail(toks) ELSE toks)

\* The part after "//": userinfo, host, port, then the path.
parse_after_double_slash(scheme, toks, query, fragment) ==
    LET slash == IndexOf(toks, "/")
        auth == Before(toks, slash)
        pathToks == IF slash = 0 THEN <<>> ELSE SubSeq(toks, slash, Len(toks))
        at == IndexOf(auth, "@")
        info == parse_userinfo(IF at = 0 THEN <<>> ELSE Before(auth, at))
        hostport == IF at = 0 THEN auth ELSE After(auth, at)
        colon == IndexOf(hostport, ":")
        word == IF Before(hostport, colon) = <<>> THEN "" ELSE hostport[1]
        portWord == IF colon = 0 \/ colon = Len(hostport) THEN None
                    ELSE Some(hostport[colon + 1])
        port == IF IsSome(portWord) THEN parse_port(Unwrap(portWord)) ELSE None
        host == IF scheme = "file"
                THEN (IF colon # 0 THEN Err("InvalidDomainCharacter")
                      ELSE IF word = "" THEN Ok(None)
                      ELSE LET h == Host_parse(word)
                           IN IF h.ok THEN Ok(Some(h.val)) ELSE h)
                ELSE LET h == IF IsSpecial(scheme) THEN Host_parse(word)
                              ELSE Host_parse_opaque(word)
                     IN IF h.ok THEN Ok(Some(h.val)) ELSE h
    IN IF ~host.ok THEN Err(host.err)
       ELSE IF IsSome(portWord) /\ ~IsSome(port) THEN Err("InvalidPort")
       ELSE Ok(MkUrl(scheme, TRUE, info.username, info.password, host.val,
                     IF port = default_port(scheme) THEN None ELSE port,
                     parse_path_start(pathToks), query, fragment))

\* Url::parse
Parse(s) ==
    LET scheme == IF Len(s) >= 2 /\ s[2] = ":" THEN parse_scheme(s[1]) ELSE None
        rest == SubSeq(s, 3, Len(s))
        hash == IndexOf(rest, "#")
        fragment == IF hash = 0 THEN None ELSE Some(After(rest, hash))
        noFrag == Before(rest, hash)
        mark == IndexOf(noFrag, "?")
        query == IF mark = 0 THEN None ELSE Some(After(noFrag, mark))
        body == Before(noFrag, mark)
    IN IF ~IsSome(scheme) THEN Err("RelativeUrlWithoutBase")
       ELSE LET sch == Unwrap(scheme)
            IN IF sch = "file"
               THEN IF StartsWith(body, "//")
                    THEN parse_after_double_slash(sch, Tail(body), query, fragment)
                    ELSE Ok(MkUrl(sch, TRUE, "", None, None, None,
                                  parse_path_start(body), query, fragment))
               ELSE IF IsSpecial(sch)
               THEN parse_after_double_slash(sch, SkipSlashes(body), query, fragment)
               ELSE IF StartsWith(body, "//")
               THEN parse_after_double_slash(sch, Tail(body), query, fragment)
               ELSE Ok(MkUrl(sch, FALSE, "", None, None, None, body, query, fragment))

(***************************************************************************)
(* The texts and Url values handed to the conversions.                     *)
(***************************************************************************)
Texts ==
    { <<"http", ":", "//", "[:::1]">>,
      <<"data", ":", "text", "/", "plain,Hello", "?", "World", "#">>,
      <<"ftp", ":", "//", "example.org", "/", "foo">>,
      <<"http", ":", "//", "brady", ":", "hunter3", "@", "example.org", ":", "42",
        "/", "foo", "?", "query", "=", "1", "#", "fragment=2">>,
      <<"https", ":", "//", "example.org">>,
      <<"HTTPS", ":", "//", "Example.ORG", ":", "443", "/">>,
      <<"https", ":", "//", "example.org", ":", "80", "/">>,
      <<"http", ":", "//", "127.0.0.1", "/", "foo">>,
      <<"foo", ":", "//", "example.org", ":", "42">>,
      <<"file", ":", "//", "/", "foo", "?", "query", "=", "1">>,
      <<"file", ":", "//", "example.org", "/", "foo">>,
      <<"unix", ":", "/", "run", "/", "foo.socket">>,
      <<"example.org", "/", "foo">>,
      <<"http", ":", "//", "example.org", ":", "99999">> }

UrlValues == { Parse(t).val : t \in { x \in Texts : Parse(x).ok } }

(***************************************************************************)
(* rust-url: the Url setters BaseUrl forwards to.  Each returns Ok(url')   *)
(* or Err(e) and leaves the Url unchanged on Err.                          *)
(***************************************************************************)
\* A set_scheme that refuses to change a special scheme into a non-special one
\* and the reverse.
Url_set_scheme_same_kind(u, word) ==
    LET p == parse_scheme(word)
    IN IF ~IsSome(p) \/ IsSpecial(Unwrap(p)) # IsSpecial(u.scheme) THEN Err("")
       ELSE Ok([u EXCEPT !.scheme = Unwrap(p)])

\* Url::set_scheme
Url_set_scheme(u, word) ==
    LET p == parse_scheme(word)
    IN IF ~IsSome(p) \/ (~has_host(u) /\ IsSpecial(Unwrap(p))) THEN Err("")
       ELSE Ok([u EXCEPT !.scheme = Unwrap(p)])

\* Url::set_username
Url_set_username(u, name) ==
    IF ~has_host(u) THEN Err("") ELSE Ok([u EXCEPT !.username = name])

\* Url::set_password
Url_set_password(u, pw) ==
    IF ~has_host(u) THEN Err("") ELSE Ok([u EXCEPT !.password = pw])

\* Url::set_host(Some(word))
Url_set_host(u, word) ==
    IF cannot_be_a_base(u) THEN Err("SetHostOnCannotBeABaseUrl")
    ELSE IF word = "" /\ IsSpecial(u.scheme) THEN Err("EmptyHost")
    ELSE LET h == IF IsSpecial(u.scheme) THEN Host_parse(word) ELSE Host_parse_opaque(word)
         IN IF h.ok THEN Ok([u EXCEPT !.host = Some(h.val), !.slashes = TRUE]) ELSE h

\* Url::set_ip_host
Url_set_ip_host(u, addr) ==
    IF cannot_be_a_base(u) THEN Err("")
    ELSE Ok([u EXCEPT !.host = Some(addr), !.slashes = TRUE])

\* Url::set_port
Url_set_port(u, port) ==
    IF ~has_host(u) \/ u.scheme = "file" THEN Err("")
    ELSE Ok([u EXCEPT !.port = IF IsSome(port) /\ port = default_port(u.scheme)
                                THEN None ELSE port])

\* Url::set_path
Url_set_path(u, toks) ==
    [u EXCEPT !.path = IF cannot_be_a_base(u) THEN toks ELSE parse_path_start(toks)]

\* Url::set_query
Url_set_query(u, q) == [u EXCEPT !.query = q]

\* Url::set_fragment
Url_set_fragment(u, f) == [u EXCEPT !.fragment = f]

\* Url::path_segments: the path after its first '/', split at '/'.
RECURSIVE Split(_)
Split(toks) ==
    IF toks = <<>> THEN <<"">>
    ELSE IF toks[1] = "/" THEN <<"">> \o Split(Tail(toks))
    ELSE IF Len(toks) = 1 THEN <<toks[1]>>
    ELSE <<toks[1]>> \o Split(SubSeq(toks, 3, Len(toks)))

Url_path_segments(u) ==
    IF StartsWith(u.path, "/") THEN Some(Split(Tail(u.path))) ELSE None

\* Url::path_segments_mut, and the PathSegmentsMut methods; a segment is
\* percent-encoded when it is pushed.
Url_path_segments_mut(u) == IF cannot_be_a_base(u) THEN Err("") ELSE Ok(u)

encode_segment(seg) == IF seg = "foo/bar" THEN "foo%2Fbar" ELSE seg

segments_clear(u) == [u EXCEPT !.path = <<"/">>]

segments_push(u, seg) ==
    [u EXCEPT !.path = u.path \o (IF Len(u.path) > 1 THEN <<"/">> ELSE <<>>)
                              \o (IF seg = "" THEN <<>> ELSE <<encode_segment(seg)>>)]

LastSlash(toks) ==
    IF \E i \in 1..Len(toks) : toks[i] = "/"
    THEN CHOOSE i \in 1..Len(toks) : toks[i] = "/" /\ \A j \in (i + 1)..Len(toks) : toks[j] # "/"
    ELSE 0

segments_pop(u) ==
    LET rest == Tail(u.path)
        cut == LastSlash(rest)
    IN [u EXCEPT !.path = <<"/">> \o (IF cut = 0 THEN <<>> ELSE SubSeq(rest, 1, cut - 1))]

\* Url::query_pairs_mut, and the Serializer methods: the builder starts an
\* empty query when there is none.
Url_query_pairs_mut(u) == [u EXCEPT !.query = IF IsSome(u.query) THEN u.query ELSE Some(<<>>)]

pairs_clear(u) == [u EXCEPT !.query = Some(<<>>)]

pairs_append_pair(u, k, v) ==
    LET q == Unwrap(u.query)
    IN [u EXCEPT !.query = Some(q \o (IF q = <<>> THEN <<>> ELSE <<"&">>) \o <<k, "=", v>>)]

\* Url::port_or_known_default
Url_port_or_known_default(u) == IF IsSome(u.port) THEN u.port ELSE default_port(u.scheme)

\* Url::origin: a tuple for the schemes with a default port, opaque otherwise.
Url_origin(u) ==
    IF u.scheme \in SpecialNotFile
    THEN [kind |-> "Tuple", scheme |-> u.scheme, host |-> u.host,
          port |-> Url_port_or_known_default(u)]
    ELSE [kind |-> "Opaque", scheme |-> "", host |-> None, port |-> None]

(***************************************************************************)
(* BaseUrl: the conversions (lib.rs 75-101).                               *)
(***************************************************************************)
Result(u, status, info, val) == [url |-> u, status |-> status, info |-> info, val |-> val]

\* impl From<BaseUrl> for Url
into_url(b) == b

\* try_from(Url) with the authority test left out.
try_from_url_flag_only(u) ==
    IF cannot_be_a_base(u)
    THEN Result(NoUrl, "Err", "CannotBeBase", None)
    ELSE Result(u, "Ok", "", None)

\* impl TryFrom<Url> for BaseUrl
try_from_url(u) ==
    IF cannot_be_a_base(u) \/ ~has_authority(u)
    THEN Result(NoUrl, "Err", "CannotBeBase", None)
    ELSE Result(u, "Ok", "", None)

\* try_from(&str) that reports every failure as CannotBeBase.
try_from_str_masks_error(s) ==
    LET r == Parse(s)
    IN IF r.ok THEN try_from_url(r.val)
       ELSE Result(NoUrl, "Err", "CannotBeBase", None)

\* impl TryFrom<&str> for BaseUrl
try_from_str(s) ==
    LET r == Parse(s)
    IN IF r.ok THEN try_from_url(r.val)
       ELSE Result(NoUrl, "Err", r.err, None)

(***************************************************************************)
(* BaseUrl: the methods (lib.rs 130-805).  Each returns the Url it leaves  *)
(* behind, how the call ended ("Ok", "Err" or "Panic") and what it         *)
(* returned.                                                               *)
(***************************************************************************)
Done(u) == Result(u, "Ok", "", None)
Returns(b, v) == Result(b, "Ok", "", v)
Panic(b) == Result(b, "Panic", "", None)

\* Result::expect and Option::unwrap on what a Url method returned.
Expect(b, r) == IF r.ok THEN Done(r.val) ELSE Panic(b)

\* A panic ends the method body: the statements after it are not reached.
Panicked(r) == r.status = "Panic"

set_scheme(b, scheme) ==
    LET r == Url_set_scheme(b, scheme)
    IN IF r.ok THEN Done(r.val) ELSE Result(b, "Err", "", None)

set_username(b, username) == Expect(b, Url_set_username(b, username))

set_password(b, password) == Expect(b, Url_set_password(b, password))

\* set_host that drops the old host before it parses the new one.
set_host_clears_first(b, host) ==
    LET cleared == [b EXCEPT !.host = None]
        r == Url_set_host(cleared, host)
    IN IF r.ok THEN Done(r.val) ELSE Result(cleared, "Err", r.err, None)

set_host(b, host) ==
    LET r == Url_set_host(b, host)
    IN IF r.ok THEN Done(r.val) ELSE Result(b, "Err", r.err, None)

set_ip_host(b, address) == Expect(b, Url_set_ip_host(b, address))

set_port(b, port) == Expect(b, Url_set_port(b, port))

set_path(b, path) == Done(Url_set_path(b, path))

set_query(b, query) == Done(Url_set_query(b, query))

set_fragment(b, fragment) == Done(Url_set_fragment(b, fragment))

path_segments_mut(b) == Expect(b, Url_path_segments_mut(b))

\* path_segments_mut( ).clear( )
path_segments_mut_clear(b) ==
    LET m == path_segments_mut(b)
    IN IF Panicked(m) THEN m ELSE Done(segments_clear(m.url))

\* path_segments_mut( ).push( segment )
path_segments_mut_push(b, segment) ==
    LET m == path_segments_mut(b)
    IN IF Panicked(m) THEN m ELSE Done(segments_push(m.url, segment))

\* path_segments_mut( ).pop( )
path_segments_mut_pop(b) ==
    LET m == path_segments_mut(b)
    IN IF Panicked(m) THEN m ELSE Done(segments_pop(m.url))

query_pairs_mut(b) == Done(Url_query_pairs_mut(b))

\* query_pairs_mut( ).clear( )
query_pairs_mut_clear(b) == Done(pairs_clear(query_pairs_mut(b).url))

\* query_pairs_mut( ).append_pair( k, v )
query_pairs_mut_append_pair(b, k, v) == Done(pairs_append_pair(query_pairs_mut(b).url, k, v))

strip(b) ==
    LET r1 == set_username(b, "")
        r2 == IF Panicked(r1) THEN r1 ELSE set_password(r1.url, None)
        r3 == IF Panicked(r2) THEN r2 ELSE set_query(r2.url, None)
    IN IF Panicked(r3) THEN r3 ELSE set_fragment(r3.url, None)

\* make_host_only that drops the last path segment instead of the path.
make_host_only_pops(b) ==
    LET r1 == strip(b)
        r2 == IF Panicked(r1) THEN r1 ELSE Done(segments_pop(r1.url))
    IN IF Panicked(r2) THEN r2 ELSE set_port(r2.url, None)

make_host_only(b) ==
    LET r1 == strip(b)
        r2 == IF Panicked(r1) THEN r1 ELSE set_path(r1.url, <<>>)
    IN IF Panicked(r2) THEN r2 ELSE set_port(r2.url, None)

host_str(b) == IF IsSome(b.host) THEN Returns(b, Unwrap(b.host).str) ELSE Panic(b)

host(b) == IF IsSome(b.host) THEN Returns(b, Unwrap(b.host)) ELSE Panic(b)

\* BaseUrl::port forwards to Url::port: the stored port, None if none is stored.
port(b) == Returns(b, b.port)

\* BaseUrl::path forwards to Url::path: the path part of the serialization.
path(b) == Returns(b, b.path)

path_segments(b) ==
    LET r == Url_path_segments(b)
    IN IF IsSome(r) THEN Returns(b, Unwrap(r)) ELSE Panic(b)

origin(b) ==
    LET o == Url_origin(b)
    IN IF o.kind = "Opaque" \/ ~IsSome(o.host) \/ ~IsSome(o.port) THEN Panic(b)
       ELSE Returns(b, <<o.scheme, Unwrap(o.host), Unwrap(o.port)>>)

(***************************************************************************)
(* The arguments the calls are made with.                                  *)
(***************************************************************************)
SchemeArgs == {"http", "HTTPS", "file", "foo", "1x"}
UsernameArgs == {"", "brady"}
PasswordArgs == {None, Some("hunter3")}
HostArgs == {"Example.ORG", "[:::1]", "exa mple.org"}
IpArgs == {[kind |-> "Ipv4", str |-> "127.0.0.1"]}
PortArgs == {None, Some(80), Some(443), Some(42)}
PathArgs == {<<>>, <<"foo">>, <<"/", "foo">>}
SegmentArgs == {"foo/bar"}
QueryArgs == {None, Some(<<"query", "=", "1">>)}
PairArgs == {<<"query", "1">>}
FragmentArgs == {None, Some(<<"fragment=2">>)}

Segments(u) == Cardinality({i \in 1..Len(u.path) : u.path[i] # "/"})
Pairs(u) == IF IsSome(u.query)
            THEN Cardinality({i \in 1..Len(Unwrap(u.query)) : Unwrap(u.query)[i] = "="})
            ELSE 0

(***************************************************************************)
(* The state machine: one conversion, then any calls on the BaseUrl until  *)
(* one of them panics.                                                     *)
(***************************************************************************)
Call(op, arg, r) ==
    /\ url' = r.url
    /\ last' = [op |-> op, arg |-> arg, status |-> r.status, info |-> r.info, val |-> r.val]
    /\ phase' = CASE r.status = "Panic" -> "panicked"
                  [] op \in {"try_from_url", "try_from_str"} /\ r.status = "Err" -> "rejected"
                  [] OTHER -> "base"

Init ==
    /\ phase = "init"
    /\ url = NoUrl
    /\ last = [op |-> "", arg |-> None, status |-> "", info |-> "", val |-> None]

TryFromUrl ==
    /\ phase = "init"
    /\ \E u \in UrlValues : Call("try_from_url", u, try_from_url(u))

TryFromStr ==
    /\ phase = "init"
    /\ \E s \in Texts : Call("try_from_str", s, try_from_str(s))

SetScheme ==
    /\ phase = "base"
    /\ \E a \in SchemeArgs : Call("set_scheme", a, set_scheme(url, a))

SetUsername ==
    /\ phase = "base"
    /\ \E a \in UsernameArgs : Call("set_username", a, set_username(url, a))

SetPassword ==
    /\ phase = "base"
    /\ \E a \in PasswordArgs : Call("set_password", a, set_password(url, a))

SetHost ==
    /\ phase = "base"
    /\ \E a \in HostArgs : Call("set_host", a, set_host(url, a))

SetIpHost ==
    /\ phase = "base"
    /\ \E a \in IpArgs : Call("set_ip_host", a, set_ip_host(url, a))

SetPort ==
    /\ phase = "base"
    /\ \E a \in PortArgs : Call("set_port", a, set_port(url, a))

SetPath ==
    /\ phase = "base"
    /\ \E a \in PathArgs : Call("set_path", a, set_path(url, a))

SetQuery ==
    /\ phase = "base"
    /\ \E a \in QueryArgs : Call("set_query", a, set_query(url, a))

SetFragment ==
    /\ phase = "base"
    /\ \E a \in FragmentArgs : Call("set_fragment", a, set_fragment(url, a))

\* path_segments_mut( ).clear( )
PathSegmentsClear ==
    /\ phase = "base"
    /\ Call("path_segments_mut.clear", None, path_segments_mut_clear(url))

\* path_segments_mut( ).push( a )
PathSegmentsPush ==
    /\ phase = "base"
    /\ Segments(url) < MaxSegments
    /\ \E a \in SegmentArgs :
          Call("path_segments_mut.push", a, path_segments_mut_push(url, a))

\* path_segments_mut( ).pop( )
PathSegmentsPop ==
    /\ phase = "base"
    /\ Call("path_segments_mut.pop", None, path_segments_mut_pop(url))

\* query_pairs_mut( ).clear( )
QueryPairsClear ==
    /\ phase = "base"
    /\ Call("query_pairs_mut.clear", None, query_pairs_mut_clear(url))

\* query_pairs_mut( ).append_pair( k, v )
QueryPairsAppendPair ==
    /\ phase = "base"
    /\ Pairs(url) < MaxPairs
    /\ \E a \in PairArgs :
          Call("query_pairs_mut.append_pair", a, query_pairs_mut_append_pair(url, a[1], a[2]))

Strip ==
    /\ phase = "base"
    /\ Call("strip", None, strip(url))

MakeHostOnly ==
    /\ phase = "base"
    /\ Call("make_host_only", None, make_host_only(url))

HostStr ==
    /\ phase = "base"
    /\ Call("host_str", None, host_str(url))

GetHost ==
    /\ phase = "base"
    /\ Call("host", None, host(url))

Port ==
    /\ phase = "base"
    /\ Call("port", None, port(url))

Path ==
    /\ phase = "base"
    /\ Call("path", None, path(url))

PathSegments ==
    /\ phase = "base"
    /\ Call("path_segments", None, path_segments(url))

Origin ==
    /\ phase = "base"
    /\ Call("origin", None, origin(url))

Next ==
    \/ TryFromUrl
    \/ TryFromStr
    \/ SetScheme
    \/ SetUsername
    \/ SetPassword
    \/ SetHost
    \/ SetIpHost
    \/ SetPort
    \/ SetPath
    \/ SetQuery
    \/ SetFragment
    \/ PathSegmentsClear
    \/ PathSegmentsPush
    \/ PathSegmentsPop
    \/ QueryPairsClear
    \/ QueryPairsAppendPair
    \/ Strip
    \/ MakeHostOnly
    \/ HostStr
    \/ GetHost
    \/ Port
    \/ Path
    \/ PathSegments
    \/ Origin

Spec == Init /\ [][Next]_vars

(***************************************************************************)
(* The properties.                                                         *)
(***************************************************************************)
Infallible ==
    {"set_username", "set_password", "set_ip_host", "set_port", "set_path",
     "set_query", "set_fragment", "strip", "make_host_only"}

HostText(u) == IF IsSome(u.host) /\ Unwrap(u.host).str # "" THEN <<Unwrap(u.host).str>> ELSE <<>>

\* C1: every BaseUrl that try_from returned, and every one a mutator call has
\* left behind, wraps a Url that is not cannot-be-a-base and that has a host.
C1_BaseSuitable ==
    phase \in {"base", "panicked"} => ~cannot_be_a_base(url) /\ has_host(url)

\* C2: try_from(u) is Err(CannotBeBase) exactly when u is cannot-be-a-base or
\* has no authority; otherwise it is Ok of a BaseUrl whose Url is u itself.
C2_TryFromUrl ==
    last.op = "try_from_url" =>
        LET u == last.arg
        IN IF cannot_be_a_base(u) \/ ~has_authority(u)
           THEN phase = "rejected" /\ last.status = "Err" /\ last.info = "CannotBeBase"
           ELSE phase = "base" /\ last.status = "Ok" /\ into_url(url) = u

C2_Witness ==
    /\ last.op = "try_from_url"
    /\ last.status = "Ok"
    /\ Serialize(into_url(url)) = Serialize(last.arg)

\* C3: try_from(s) is Err(ParseError(e)) with the parser's own e when the
\* parser rejects s, and is try_from(u) when the parser reads s as u
\* (CannotBeBase for a u that is no base, the same serialization otherwise).
C3_TryFromStr ==
    last.op = "try_from_str" =>
        LET r == Parse(last.arg)
        IN IF ~r.ok
           THEN /\ phase = "rejected"
                /\ last.status = "Err"
                /\ last.info = r.err
                /\ last.info # "CannotBeBase"
           ELSE LET viaUrl == try_from_url(r.val)
                IN /\ last.status = viaUrl.status
                   /\ last.info = viaUrl.info
                   /\ (cannot_be_a_base(r.val) \/ ~has_authority(r.val)
                         => last.status = "Err" /\ last.info = "CannotBeBase")
                   /\ last.status = "Ok" => Serialize(url) = Serialize(viaUrl.url)

C3_Witness ==
    /\ last.op = "try_from_str"
    /\ last.status = "Err"
    /\ last.info = "InvalidIpv6Address"

\* C4: host_str, host and path_segments return a value on every BaseUrl,
\* they never panic on an absent one.
C4_AccessorsTotal ==
    last.op \in {"host_str", "host", "path_segments"} => last.status = "Ok"

\* C5: the mutators documented as infallible return normally on every BaseUrl
\* and for every argument.
C5_InfallibleMutators ==
    last.op \in Infallible => last.status = "Ok"

C7_MakeHostOnlyPost ==
    [][ last'.op = "make_host_only" =>
            /\ Serialize(url') = <<url.scheme, ":", "//">> \o HostText(url) \o <<"/">>
            /\ url'.scheme = url.scheme
            /\ url'.host = url.host
            /\ url'.username = ""
            /\ url'.password = None
            /\ url'.port = None
            /\ url'.path = <<"/">>
            /\ url'.query = None
            /\ url'.fragment = None ]_vars

\* C8: the call strip leaves the username empty and the password, query and
\* fragment absent, and leaves scheme, host, port and path as they were.
C8_StripEffectAndFrame ==
    [][ last'.op = "strip" =>
            /\ url'.username = ""
            /\ url'.password = None
            /\ url'.query = None
            /\ url'.fragment = None
            /\ url'.scheme = url.scheme
            /\ url'.host = url.host
            /\ url'.port = url.port
            /\ url'.path = url.path ]_vars

\* C9: on every BaseUrl, strip applied twice leaves the serialization that
\* strip applied once leaves, and so does make_host_only.
C9_Idempotent ==
    phase = "base" =>
        LET s1 == strip(url)
            s2 == strip(s1.url)
            m1 == make_host_only(url)
            m2 == make_host_only(m1.url)
        IN /\ Serialize(s2.url) = Serialize(s1.url)
           /\ s2.status = s1.status
           /\ Serialize(m2.url) = Serialize(m1.url)
           /\ m2.status = m1.status

C9_Witness ==
    /\ phase = "base"
    /\ last.op = "make_host_only"
    /\ last.status = "Ok"
    /\ Serialize(make_host_only(url).url) = Serialize(url)

\* C10: origin returns (scheme, host, port) on every BaseUrl, never panics,
\* and the port is the explicit port if there is one and else the default
\* port of the scheme.
C10_OriginTotal ==
    last.op = "origin" =>
        /\ last.status = "Ok"
        /\ last.val = <<url.scheme, Unwrap(url.host),
                        Unwrap(IF IsSome(url.port) THEN url.port ELSE default_port(url.scheme))>>

\* C11: after set_port(Some(p)) the accessor port returns None when p is the
\* default port of the scheme and Some(p) otherwise; after set_port(None) it
\* returns None.
C11_SetPortThenPort ==
    last.op = "set_port" =>
        port(url).val = IF last.arg = default_port(url.scheme) THEN None ELSE last.arg

\* C12: the path of a BaseUrl of any accepted scheme, after any sequence of
\* mutators, is non-empty and starts with "/"; when it is exactly "/",
\* path_segments yields one empty segment.
C12_PathStartsWithSlash ==
    phase \in {"base", "panicked"} =>
        /\ path(url).val # <<>>
        /\ StartsWith(path(url).val, "/")
        /\ path(url).val = <<"/">> =>
              /\ path_segments(url).status = "Ok"
              /\ path_segments(url).val = <<"">>
        /\ last.op = "path" => last.val = url.path

C12_Witness ==
    /\ phase = "base"
    /\ url.scheme = "foo"
    /\ last.op = "set_path"
    /\ last.arg = <<>>
    /\ path(url).val = <<"/">>
    /\ path_segments(url).val = <<"">>

C14_DefaultPortElided ==
    (phase \in {"base", "panicked"} /\ IsSome(default_port(url.scheme))) =>
        /\ port(url).val # default_port(url.scheme)
        /\ Serialize(url) # Serialize([url EXCEPT !.port = default_port(url.scheme)])
        /\ last.op = "port" => last.val # default_port(url.scheme)

====
